---------------------------- MODULE Spec2Model ----------------------------
(* Model of the tokn-web optimisation backend: the two Flask optimisation  *)
(* endpoints, the public function optimize_with_gepa and the three worker   *)
(* scripts (DSPy worker, backend GEPA worker, renderer GEPA worker).        *)
(* Every behaviour follows one job, or one pair of requests the backend      *)
(* serves concurrently; the external libraries (DSPy, MLflow, provider SDKs) *)
(* are an environment whose calls either return or raise.                    *)
EXTENDS Integers, Sequences, FiniteSets, TLC

VARIABLES
    http,       \* the last HTTP request handled and its outcome, or NoHttp
    api,        \* the last direct call of optimize_with_gepa and its result, or NoApi
    worker,     \* which worker script is running ("none" when no worker runs)
    pc,         \* the worker's position in main()
    installed,  \* third-party packages importable in the job's interpreter
    stdin,      \* what the worker's standard input holds
    config,     \* the configuration the worker parsed from standard input
    out,        \* the messages the worker has written to standard output
    exc,        \* the exception propagating in main(), or NoExc
    calls,      \* the external library calls the worker has made
    local,      \* main()'s local variables that later steps read
    exitCode,   \* the worker's exit code, or NotExited
    environ,    \* os.environ of the backend process: the provider's API key variable
    jobs,       \* the optimize_with_gepa calls running concurrently in the backend
    extraction  \* the last call of extract_optimization_results, or NoExtraction

\* the state of the concurrently served requests and of a result extraction
\* called on its own
jobVars == <<environ, jobs, extraction>>

vars == <<http, api, worker, pc, installed, stdin, config, out, exc, calls,
          local, exitCode, environ, jobs, extraction>>

-----------------------------------------------------------------------------
(* Bounds of the model *)

\* longest example list of a worker configuration
MaxExamples == 2

-----------------------------------------------------------------------------
(* Python exception classes and the except clauses that test them *)

NoExc == [cls |-> "NoExc", msg |-> "none"]

Exc(cls, msg) == [cls |-> cls, msg |-> msg]

\* direct base class of each exception class the code can see
BaseOf(cls) ==
    CASE cls = "ModuleNotFoundError" -> "ImportError"
      [] cls = "JSONDecodeError"     -> "ValueError"
      [] cls = "SystemExit"          -> "BaseException"
      [] cls = "KeyboardInterrupt"   -> "BaseException"
      [] cls = "Exception"           -> "BaseException"
      [] cls = "BaseException"       -> "BaseException"
      [] OTHER                       -> "Exception"

RECURSIVE IsSubclass(_, _)
IsSubclass(cls, base) ==
    IF cls = base THEN TRUE
    ELSE IF cls = "BaseException" THEN FALSE
    ELSE IsSubclass(BaseOf(cls), base)

\* `except ImportError`
CaughtAsImportError(cls) == IsSubclass(cls, "ImportError")

\* `except Exception`
CaughtAsException(cls) == IsSubclass(cls, "Exception")

-----------------------------------------------------------------------------
(* Import resolution on the backend's sys.path *)

\* modules of the backend directory, which the routes put first on sys.path,
\* and the names each one defines
BackendModules ==
    [ m \in {"dspy.dspy_optimizer", "gepa_custom", "gepa_custom.gepa_optimizer"} |->
        CASE m = "dspy.dspy_optimizer" ->
               {"log_progress", "log_error", "setup_language_model", "prepare_dataset",
                "create_metric", "create_dspy_program", "run_mipro", "evaluate_program",
                "extract_optimized_results", "save_compiled_program", "main"}
          [] m = "gepa_custom" -> {"optimize_with_gepa"}
          [] m = "gepa_custom.gepa_optimizer" ->
               {"log_progress", "log_error", "get_model_client", "create_predict_fn",
                "prepare_dataset", "create_scorers", "create_aggregation_fn",
                "register_prompt_with_mlflow", "run_gepa_optimization",
                "extract_optimization_results", "main", "optimize_with_gepa"} ]

\* backend directories with an __init__.py; a directory without one is a
\* namespace portion, which any regular package of the same name shadows
BackendRegularPackages == {"gepa_custom"}

TopPackage(module) ==
    CASE module = "dspy.dspy_optimizer" -> "dspy"
      [] module = "gepa.gepa_optimizer" -> "gepa"
      [] module = "gepa_custom.gepa_optimizer" -> "gepa_custom"
      [] OTHER -> module

\* `from module import name`: "ok", or the class of the exception raised
ImportFrom(module, name, inst) ==
    LET top == TopPackage(module)
        shadowed == top \in inst /\ top \notin BackendRegularPackages
    IN  IF shadowed \/ module \notin DOMAIN BackendModules
        THEN "ModuleNotFoundError"
        ELSE IF name \in BackendModules[module] THEN "ok" ELSE "ImportError"

-----------------------------------------------------------------------------
(* HTTP layer: POST /api/optimize/dspy and POST /api/optimize/gepa *)

NoHttp == [route |-> "none"]
NoApi == [called |-> FALSE]

AllFields == {"prompt", "examples", "model", "provider", "apiKey", "providers", "config"}

ExampleShapes == {"ok", "empty", "missing_key"}

\* what request.get_json() is asked to parse: for an object, the keys present;
\* for an array, the strings it contains
Bodies ==
    [kind : {"object", "array"}, keys : SUBSET AllFields, examples : ExampleShapes]
    \cup [kind : {"truthy_scalar", "falsy_scalar", "unparseable"}, keys : {{}},
          examples : {"ok"}]

\* Python truth value of the parsed body (`if not data`)
Falsy(data) ==
    \/ data.kind = "falsy_scalar"
    \/ data.kind \in {"object", "array"} /\ data.keys = {}

DspyRequiredFieldsShort == <<"prompt", "examples", "model", "provider">>
DspyRequiredFields == <<"prompt", "examples", "model", "provider", "apiKey">>

GepaRequiredFields == <<"prompt", "examples", "providers">>

Missing(required, data) ==
    {i \in DOMAIN required : required[i] \notin data.keys}

\* the field the validation loop reports: the first one absent
FirstMissing(required, data) ==
    required[CHOOSE i \in Missing(required, data) :
                 \A j \in Missing(required, data) : i <= j]

InvalidRequestAs500(message) ==
    [status |-> 500, success |-> FALSE, code |-> "INVALID_REQUEST", error |-> message]
InvalidRequest(message) ==
    [status |-> 400, success |-> FALSE, code |-> "INVALID_REQUEST", error |-> message]

DependencyMissing(message) ==
    [status |-> 500, success |-> FALSE, code |-> "DEPENDENCY_MISSING", error |-> message]

OptimizationFailed(message) ==
    [status |-> 500, success |-> FALSE, code |-> "OPTIMIZATION_FAILED", error |-> message]

InternalError(message) ==
    [status |-> 500, success |-> FALSE, code |-> "INTERNAL_ERROR", error |-> message]

Success200 ==
    [status |-> 200, success |-> TRUE, code |-> "none", error |-> "none"]

\* the two except clauses that end each route, tried in order
RouteExcept(cls, depMessage) ==
    IF CaughtAsImportError(cls) THEN DependencyMissing(depMessage)
    ELSE IF CaughtAsException(cls) THEN InternalError(cls)
    ELSE [status |-> 0, success |-> FALSE, code |-> "ESCAPED", error |-> cls]

\* results an optimizer entry point can hand back to a route
OptimizerResults ==
    [type : {"success", "error"}, has_optimized_prompt : BOOLEAN]

\* the route's mapping of the optimizer's result (the branch on result['type'])
RouteRespond(result, depMessage) ==
    IF result.type = "success"
    THEN IF result.has_optimized_prompt THEN Success200
         ELSE RouteExcept("KeyError", depMessage)
    ELSE OptimizationFailed("Optimization failed")

\* outcome of one request: the response, whether control reached the import
\* of the optimizer module, whether the module was loaded, and the number of
\* calls of the optimizer entry point
Handled(response, reached, loaded, n) ==
    [response |-> response, importReached |-> reached, imported |-> loaded,
     invoked |-> n]

RouteBody(data, inst, result, required, module, name, depMessage) ==
    IF data.kind = "unparseable"
    THEN Handled(RouteExcept("BadRequest", depMessage), FALSE, FALSE, 0)
    ELSE IF Falsy(data)
    THEN Handled(InvalidRequest("Request body is required"), FALSE, FALSE, 0)
    ELSE IF data.kind = "truthy_scalar"
    THEN Handled(RouteExcept("TypeError", depMessage), FALSE, FALSE, 0)
    ELSE IF Missing(required, data) # {}
    THEN Handled(InvalidRequest(FirstMissing(required, data)), FALSE, FALSE, 0)
    ELSE LET imp == ImportFrom(module, name, inst)
             loaded == imp # "ModuleNotFoundError"
         IN  IF imp # "ok"
             THEN Handled(RouteExcept(imp, depMessage), TRUE, loaded, 0)
             ELSE IF data.kind # "object"
             THEN Handled(RouteExcept("TypeError", depMessage), TRUE, TRUE, 0)
             ELSE IF data.examples = "missing_key"
             THEN Handled(RouteExcept("KeyError", depMessage), TRUE, TRUE, 0)
             ELSE Handled(RouteRespond(result, depMessage), TRUE, TRUE, 1)

optimize_dspy(data, inst, result) ==
    RouteBody(data, inst, result, DspyRequiredFields,
              "dspy.dspy_optimizer", "optimize_prompt", "DSPy not installed")

optimize_gepa(data, inst, result) ==
    RouteBody(data, inst, result, GepaRequiredFields,
              "gepa.gepa_optimizer", "optimize_with_gepa",
              "GEPA dependencies not installed")


-----------------------------------------------------------------------------
(* Worker protocol: messages on standard output, exit code *)

NotExited == 0 - 1

Workers == {"dspy", "gepa_backend", "gepa_renderer"}

GepaWorkers == {"gepa_backend", "gepa_renderer"}

\* log_progress(message)
Progress(text) == [type |-> "progress", text |-> text, traceback |-> FALSE]

\* log_error(message, tb): the traceback key is written when tb is not empty
LogErrorNoTraceback(message, tb) ==
    [type |-> "error", text |-> message, traceback |-> FALSE]
LogError(message, tb) ==
    [type |-> "error", text |-> message, traceback |-> tb]

\* the success result main() prints
SuccessMessage == [type |-> "success", text |-> "result", traceback |-> FALSE]

StdinKinds == {"empty", "whitespace", "malformed", "json_object", "json_other"}

\* the library a worker cannot run without
RequiredLibrary(w) == IF w = "dspy" THEN "dspy" ELSE "mlflow"

\* a dataset item: a complete one (two with different contents, so that order
\* shows), or one that lacks a required field
ItemKinds == {"a", "b", "incomplete"}

RECURSIVE SeqsUpTo(_, _)
SeqsUpTo(S, n) ==
    IF n = 0 THEN {<<>>}
    ELSE LET shorter == SeqsUpTo(S, n - 1)
         IN  shorter \cup {Append(s, x) : s \in {t \in shorter : Len(t) = n - 1}, x \in S}

\* a dataset key of the configuration: absent, or a list of items
Datasets ==
    [present : {TRUE}, items : SeqsUpTo(ItemKinds, MaxExamples)]
    \cup {[present |-> FALSE, items |-> <<>>]}

NoDataset == [present |-> FALSE, items |-> <<>>]

NotApplicable == "n/a"

DspyConfigs ==
    [model_config : {"absent", "openai", "anthropic", "ollama", "bogus"},
     train_dataset : Datasets,
     val_dataset : {d \in Datasets : Len(d.items) <= 1},
     metric : {"absent", "exact_match", "contains", "semantic_f1", "bogus"},
     program_type : {"predict", "bogus"},
     optimizer : {"absent", "MIPRO", "MIPROv2", "bogus"},
     scorer_config : {NotApplicable}]

GepaConfigs ==
    [model_config : {"absent", "openai", "anthropic", "google", "ollama", "bogus"},
     train_dataset : Datasets,
     val_dataset : {NoDataset},
     metric : {NotApplicable},
     program_type : {NotApplicable},
     optimizer : {NotApplicable},
     scorer_config : {"absent", "empty", "correctness", "safety", "bogus",
                      "correctness+bogus"}]

\* what json.loads yields for a document that is not an object: every key
\* lookup on it raises
NoConfig ==
    [model_config |-> NotApplicable, train_dataset |-> NoDataset,
     val_dataset |-> NoDataset, metric |-> NotApplicable,
     program_type |-> NotApplicable, optimizer |-> NotApplicable,
     scorer_config |-> NotApplicable]

ConfigsOf(w) == IF w = "dspy" THEN DspyConfigs ELSE GepaConfigs

\* no prompt object yet
NoPrompt == [template |-> "none", resolves |-> FALSE]

\* validation_score before evaluate_program has returned
NoScore == 0 - 1

NoLocal == [train |-> 0, val |-> 0, exitArg |-> NotExited, scorers |-> 0,
            saved |-> FALSE, extracted |-> FALSE, prepared |-> <<>>,
            client |-> "none", trainset |-> <<>>, valset |-> <<>>, split |-> "none",
            evaluated |-> NoScore, score |-> NoScore, predict |-> "none",
            prompt |-> NoPrompt, path |-> "none"]

\* the requests the backend serves at the same time, one thread each
Jobs == {"A", "B"}

\* the API key each request carries for the provider: different keys
ApiKeyOf(j) == "key" \o j

\* one call of optimize_with_gepa: its position, the api_key of its
\* model_config, what get_model_client returned, and the keys its model call
\* and its scorer call were made with
NoJob == [pc |-> "idle", key |-> "none", client |-> "none", modelKey |-> "none",
          scorerKey |-> "none"]

NoJobs == [j \in Jobs |-> NoJob]

NoExtraction == [called |-> FALSE]

Init ==
    /\ http = NoHttp
    /\ api = NoApi
    /\ worker = "none"
    /\ pc = "idle"
    /\ installed = {}
    /\ stdin = "empty"
    /\ config = NoConfig
    /\ out = <<>>
    /\ exc = NoExc
    /\ calls = {}
    /\ local = NoLocal
    /\ exitCode = NotExited
    /\ environ = "unset"
    /\ jobs = NoJobs
    /\ extraction = NoExtraction

\* no job has been started yet: every behaviour follows one job (or one pair
\* of concurrently served requests)
WorkerIdle ==
    /\ pc = "idle"
    /\ http = NoHttp
    /\ api = NoApi
    /\ jobs = NoJobs
    /\ extraction = NoExtraction

WorkerReset ==
    /\ worker' = "none"
    /\ pc' = "idle"
    /\ stdin' = "empty"
    /\ config' = NoConfig
    /\ out' = <<>>
    /\ exc' = NoExc
    /\ calls' = {}
    /\ local' = NoLocal
    /\ exitCode' = NotExited

\* a request arrives at POST /api/optimize/dspy and the handler answers it
OptimizeDspy ==
    /\ WorkerIdle
    /\ \E data \in Bodies, inst \in SUBSET {"dspy"}, result \in OptimizerResults :
          /\ http' = [route |-> "dspy", data |-> data]
                       @@ optimize_dspy(data, inst, result)
          /\ installed' = inst
    /\ api' = NoApi
    /\ WorkerReset
    /\ UNCHANGED jobVars

\* a request arrives at POST /api/optimize/gepa and the handler answers it
OptimizeGepa ==
    /\ WorkerIdle
    /\ \E data \in Bodies, inst \in SUBSET {"gepa"}, result \in OptimizerResults :
          /\ http' = [route |-> "gepa", data |-> data]
                       @@ optimize_gepa(data, inst, result)
          /\ installed' = inst
    /\ api' = NoApi
    /\ WorkerReset
    /\ UNCHANGED jobVars

-----------------------------------------------------------------------------
(* Worker entry points: main() of the three worker scripts *)

\* a raise inside main()'s try block: control goes to the except clause
Raise(cls, msg) ==
    /\ exc' = Exc(cls, msg)
    /\ pc' = "raised"

\* the worker process is started with something on its standard input
StartWorker ==
    /\ WorkerIdle
    /\ \E w \in Workers, kind \in StdinKinds, inst \in SUBSET {"dspy", "mlflow"} :
          /\ inst \subseteq {RequiredLibrary(w)}
          /\ worker' = w
          /\ stdin' = kind
          /\ installed' = inst
    /\ pc' = "read_stdin"
    /\ config' = NoConfig
    /\ out' = <<>>
    /\ exc' = NoExc
    /\ calls' = {}
    /\ local' = NoLocal
    /\ exitCode' = NotExited
    /\ http' = NoHttp
    /\ api' = NoApi
    /\ UNCHANGED jobVars

\* Step 1 as a function of what standard input holds: the exception the
\* emptiness test or json.loads raises, NoExc when a document is parsed
ParseStdinBlankAsEmptyConfig(kind) ==
    IF kind = "malformed" THEN Exc("JSONDecodeError", "Expecting value") ELSE NoExc
ParseStdin(kind) ==
    IF kind \in {"empty", "whitespace"}
    THEN Exc("ValueError", "No configuration received on stdin")
    ELSE IF kind = "malformed"
    THEN Exc("JSONDecodeError", "Expecting value")
    ELSE NoExc

\* Step 1: sys.stdin.read(), the emptiness test and json.loads
ReadStdin ==
    /\ pc = "read_stdin"
    /\ LET parsed == ParseStdin(stdin)
       IN  IF parsed # NoExc
           THEN Raise(parsed.cls, parsed.msg) /\ UNCHANGED config
           ELSE /\ \E c \in ConfigsOf(worker) :
                      config' = IF stdin = "json_object" THEN c ELSE NoConfig
                /\ pc' = "import"
                /\ UNCHANGED exc
    /\ UNCHANGED <<http, api, worker, installed, stdin, out, calls, local, exitCode>>
    /\ UNCHANGED jobVars

\* Step 2: the guarded import of the library; an ImportError is replaced by
\* one with an installation hint
ImportLibrary ==
    /\ pc = "import"
    /\ IF RequiredLibrary(worker) \in installed
       THEN /\ pc' = IF worker = "dspy" THEN "setup_lm" ELSE "init_tracking"
            /\ UNCHANGED exc
       ELSE Raise("ImportError", "library not found")
    /\ UNCHANGED <<http, api, worker, installed, stdin, config, out, calls, local,
                   exitCode>>
    /\ UNCHANGED jobVars

-----------------------------------------------------------------------------
(* DSPy worker: src/backend/dspy/dspy_optimizer.py *)

\* what an external library call does: return, or raise
LibraryOutcomes == {"ok", "raises"}

LibraryFailure == Exc("RuntimeError", "library call failed")

\* index of the first item of a dataset that lacks a required field, 0 if none
FirstIncomplete(items) ==
    IF \E i \in DOMAIN items : items[i] = "incomplete"
    THEN CHOOSE i \in DOMAIN items :
            /\ items[i] = "incomplete"
            /\ \A j \in DOMAIN items : items[j] = "incomplete" => i <= j
    ELSE 0

\* int(n * 0.8)
SplitIndexRounded(n) == (n * 8 + 5) \div 10
SplitIndex(n) == (n * 8) \div 10

\* Step 3: log_progress, config['model_config'], setup_language_model
SetupLanguageModel ==
    /\ pc = "setup_lm"
    /\ worker = "dspy"
    /\ out' = Append(out, Progress("Initializing DSPy optimizer..."))
    /\ \E lm \in LibraryOutcomes, configure \in LibraryOutcomes :
          IF config = NoConfig
          THEN Raise("TypeError", "model_config") /\ UNCHANGED calls
          ELSE IF config.model_config = "absent"
          THEN Raise("KeyError", "model_config") /\ UNCHANGED calls
          ELSE IF config.model_config \notin {"openai", "anthropic"}
          THEN Raise("ValueError", "Unsupported provider") /\ UNCHANGED calls
          ELSE IF lm = "raises"
          THEN /\ Raise(LibraryFailure.cls, LibraryFailure.msg)
               /\ calls' = calls \cup {"dspy.LM"}
          ELSE IF configure = "raises"
          THEN /\ Raise(LibraryFailure.cls, LibraryFailure.msg)
               /\ calls' = calls \cup {"dspy.LM", "dspy.configure"}
          ELSE /\ pc' = "prepare"
               /\ calls' = calls \cup {"dspy.LM", "dspy.configure"}
               /\ UNCHANGED exc
    /\ UNCHANGED <<http, api, worker, installed, stdin, config, local, exitCode>>
    /\ UNCHANGED jobVars

\* f"{dataset_name}[{i}]" for the item at position i of the sequence (Python
\* counts from 0)
IndexedName(name, i) == name \o "[" \o ToString(i - 1) \o "]"

\* prepare_dataset of the DSPy worker: NoExc, or the exception it raises
DspyPrepareDatasetLastIndex(dataset, name) ==
    IF Len(dataset.items) = 0 THEN Exc("ValueError", name \o " is empty")
    ELSE IF FirstIncomplete(dataset.items) # 0
    THEN Exc("ValueError", IndexedName(name, Len(dataset.items)) \o " missing field")
    ELSE NoExc
DspyPrepareDataset(dataset, name) ==
    IF Len(dataset.items) = 0 THEN Exc("ValueError", name \o " is empty")
    ELSE IF FirstIncomplete(dataset.items) # 0
    THEN Exc("ValueError",
             IndexedName(name, FirstIncomplete(dataset.items)) \o " missing field")
    ELSE NoExc

\* dspy.Example(question=str(item['input']), answer=str(item['output']))
DspyExample(item) == [question |-> item \o ".input", answer |-> item \o ".output"]

\* the list prepare_dataset of the DSPy worker returns: one Example per item,
\* appended in the order of the input
DspyPrepared(items) == [i \in DOMAIN items |-> DspyExample(items[i])]

\* the training and validation sets main() goes on with: the supplied
\* validation set, or trainset[:split_idx] and trainset[split_idx:], or the
\* whole list for both
DspyDatasets(examples, hasVal, valExamples) ==
    LET n == Len(examples)
    IN  IF hasVal
        THEN [trainset |-> examples, valset |-> valExamples, split |-> "supplied"]
        ELSE IF SplitIndex(n) < n
        THEN [trainset |-> SubSeq(examples, 1, SplitIndex(n)),
              valset |-> SubSeq(examples, SplitIndex(n) + 1, n),
              split |-> "split"]
        ELSE [trainset |-> examples, valset |-> examples, split |-> "whole"]

\* Step 4: the training set, then the validation set or the 80/20 split
PrepareDatasets ==
    /\ pc = "prepare"
    /\ worker = "dspy"
    /\ LET train == DspyPrepareDataset(config.train_dataset, "train_dataset")
           n == Len(config.train_dataset.items)
           hasVal == config.val_dataset.present /\ Len(config.val_dataset.items) > 0
           val == DspyPrepareDataset(config.val_dataset, "val_dataset")
           made == IF n > 0 /\ FirstIncomplete(config.train_dataset.items) # 1
                   THEN {"dspy.Example"} ELSE {}
           sets == DspyDatasets(DspyPrepared(config.train_dataset.items), hasVal,
                                DspyPrepared(config.val_dataset.items))
       IN  IF ~config.train_dataset.present
           THEN /\ Raise("KeyError", "train_dataset")
                /\ UNCHANGED <<out, calls, local>>
           ELSE IF train # NoExc
           THEN /\ Raise(train.cls, train.msg)
                /\ calls' = calls \cup made
                /\ UNCHANGED <<out, local>>
           ELSE IF hasVal
           THEN IF val # NoExc
                THEN /\ Raise(val.cls, val.msg)
                     /\ calls' = calls \cup made
                     /\ local' = [local EXCEPT
                                     !.prepared = DspyPrepared(config.train_dataset.items)]
                     /\ UNCHANGED out
                ELSE /\ local' = [local EXCEPT !.train = Len(sets.trainset),
                                               !.val = Len(sets.valset),
                                               !.prepared = DspyPrepared(config.train_dataset.items),
                                               !.trainset = sets.trainset,
                                               !.valset = sets.valset,
                                               !.split = sets.split]
                     /\ calls' = calls \cup made
                     /\ pc' = "metric"
                     /\ UNCHANGED <<out, exc>>
           ELSE /\ local' = [local EXCEPT !.train = Len(sets.trainset),
                                          !.val = Len(sets.valset),
                                          !.prepared = DspyPrepared(config.train_dataset.items),
                                          !.trainset = sets.trainset,
                                          !.valset = sets.valset,
                                          !.split = sets.split]
                /\ out' = IF sets.split = "split"
                          THEN Append(out, Progress("Using training and validation examples"))
                          ELSE Append(out, Progress("Using examples for training and validation"))
                /\ calls' = calls \cup made
                /\ pc' = "metric"
                /\ UNCHANGED exc
    /\ UNCHANGED <<http, api, worker, installed, stdin, config, exitCode>>
    /\ UNCHANGED jobVars

\* Step 5: create_metric(config['metric_config'])
CreateMetric ==
    /\ pc = "metric"
    /\ worker = "dspy"
    /\ \E semanticF1 \in {"ok", "ImportError", "raises"} :
          IF config.metric = "absent"
          THEN Raise("KeyError", "metric_config") /\ UNCHANGED out
          ELSE IF config.metric \in {"exact_match", "contains"}
          THEN pc' = "program" /\ UNCHANGED <<out, exc>>
          ELSE IF config.metric = "semantic_f1"
          THEN IF semanticF1 = "ok"
               THEN pc' = "program" /\ UNCHANGED <<out, exc>>
               ELSE IF semanticF1 = "ImportError"
               THEN /\ out' = Append(out, Progress("SemanticF1 not available, falling back to exact match"))
                    /\ pc' = "program"
                    /\ UNCHANGED exc
               ELSE Raise(LibraryFailure.cls, LibraryFailure.msg) /\ UNCHANGED out
          ELSE Raise("ValueError", "Unknown metric type") /\ UNCHANGED out
    /\ UNCHANGED <<http, api, worker, installed, stdin, config, calls, local, exitCode>>
    /\ UNCHANGED jobVars

\* Step 6: create_dspy_program; an unknown program type falls back to 'predict'
CreateProgram ==
    /\ pc = "program"
    /\ worker = "dspy"
    /\ \E module \in LibraryOutcomes :
          /\ out' = IF config.program_type = "predict" THEN out
                    ELSE Append(out, Progress("Unknown program type, using 'predict'"))
          /\ calls' = calls \cup {"dspy.Predict"}
          /\ IF module = "raises"
             THEN Raise(LibraryFailure.cls, LibraryFailure.msg)
             ELSE pc' = "optimize" /\ UNCHANGED exc
    /\ UNCHANGED <<http, api, worker, installed, stdin, config, local, exitCode>>
    /\ UNCHANGED jobVars

\* Step 7: the optimizer type test and run_mipro
RunMipro ==
    /\ pc = "optimize"
    /\ worker = "dspy"
    /\ \E fault \in {"none", "import", "constructor", "compile"} :
          IF config.optimizer \notin {"absent", "MIPRO", "MIPROv2"}
          THEN Raise("ValueError", "Unknown optimizer") /\ UNCHANGED <<out, calls>>
          ELSE IF fault = "import"
          THEN Raise("ImportError", "cannot import name 'MIPROv2'") /\ UNCHANGED <<out, calls>>
          ELSE IF fault = "constructor"
          THEN /\ out' = out \o <<Progress("Starting MIPROv2 optimization"),
                                  Progress("Optimizing with mode")>>
               /\ calls' = calls \cup {"MIPROv2"}
               /\ Raise(LibraryFailure.cls, LibraryFailure.msg)
          ELSE IF fault = "compile"
          THEN /\ out' = out \o <<Progress("Starting MIPROv2 optimization"),
                                  Progress("Optimizing with mode"),
                                  Progress("Running MIPROv2 optimization")>>
               /\ calls' = calls \cup {"MIPROv2", "optimizer.compile"}
               /\ Raise(LibraryFailure.cls, LibraryFailure.msg)
          ELSE /\ out' = out \o <<Progress("Starting MIPROv2 optimization"),
                                  Progress("Optimizing with mode"),
                                  Progress("Running MIPROv2 optimization"),
                                  Progress("Optimization complete")>>
               /\ calls' = calls \cup {"MIPROv2", "optimizer.compile"}
               /\ pc' = "evaluate"
               /\ UNCHANGED exc
    /\ UNCHANGED <<http, api, worker, installed, stdin, config, local, exitCode>>
    /\ UNCHANGED jobVars

\* result.score of the evaluator, a percentage
EvaluatorScores == {0, 1, 50, 100}

\* the score evaluate_program returns, in hundredths: score / 100.0 when the
\* evaluator's score is above 1, else the evaluator's score as it is
NormalizeScore(p) == IF p > 1 THEN p ELSE p * 100

\* Step 8: evaluate_program
EvaluateProgram ==
    /\ pc = "evaluate"
    /\ worker = "dspy"
    /\ \E evaluation \in LibraryOutcomes, p \in EvaluatorScores :
          /\ out' = Append(out, Progress("Evaluating on examples"))
          /\ calls' = calls \cup {"dspy.Evaluate"}
          /\ IF evaluation = "raises"
             THEN /\ Raise(LibraryFailure.cls, LibraryFailure.msg)
                  /\ UNCHANGED local
             ELSE /\ local' = [local EXCEPT !.evaluated = p,
                                            !.score = NormalizeScore(p)]
                  /\ pc' = "extract"
                  /\ UNCHANGED exc
    /\ UNCHANGED <<http, api, worker, installed, stdin, config, exitCode>>
    /\ UNCHANGED jobVars

\* Step 9: extract_optimized_results; its own try block reports a failure as
\* two progress messages
ExtractOptimizedResults ==
    /\ pc = "extract"
    /\ worker = "dspy"
    /\ \E traversal \in LibraryOutcomes :
          IF traversal = "ok"
          THEN /\ out' = Append(out, Progress("Extracted demos and optimized instructions"))
               /\ local' = [local EXCEPT !.extracted = TRUE]
          ELSE /\ out' = out \o <<Progress("Warning: Could not fully extract results"),
                                  Progress("Traceback")>>
               /\ local' = [local EXCEPT !.extracted = FALSE]
    /\ pc' = "save"
    /\ UNCHANGED <<http, api, worker, installed, stdin, config, exc, calls, exitCode>>
    /\ UNCHANGED jobVars

\* what save_compiled_program returns, and main() reports as
\* compiled_program_path: os.path.abspath(save_path), or save_path from the
\* except clause
SavedPath(save) == IF save = "ok" THEN "abs_path" ELSE "save_path"

\* Step 10: save_compiled_program; a failure is swallowed and the requested
\* path returned
SaveCompiledProgram ==
    /\ pc = "save"
    /\ worker = "dspy"
    /\ \E save \in {"ok", "makedirs_raises", "save_raises"} :
          /\ local' = [local EXCEPT !.saved = (save = "ok"),
                                    !.path = SavedPath(save)]
          /\ calls' = IF save = "makedirs_raises" THEN calls
                      ELSE calls \cup {"compiled_program.save"}
    /\ pc' = "report"
    /\ UNCHANGED <<http, api, worker, installed, stdin, config, out, exc, exitCode>>
    /\ UNCHANGED jobVars

-----------------------------------------------------------------------------
(* GEPA workers: src/backend/gepa_custom/gepa_optimizer.py and               *)
(* src/renderer/gepa/gepa_optimizer.py; the renderer's main() reports more   *)
(* progress                                                                  *)

\* the progress messages only the renderer worker writes
RendererOnly(w, msgs) == IF w = "gepa_renderer" THEN msgs ELSE <<>>

\* the progress messages only the backend worker writes
BackendOnly(w, msgs) == IF w = "gepa_backend" THEN msgs ELSE <<>>

\* Step 3: the tracking directory, the tracking URI and the experiment
InitTracking ==
    /\ pc = "init_tracking"
    /\ worker \in GepaWorkers
    /\ \E makedirs \in LibraryOutcomes, uri \in LibraryOutcomes,
          experiment \in {"exists", "created", "lookup_raises", "set_raises"} :
          IF makedirs = "raises"
          THEN /\ Raise("OSError", "makedirs failed")
               /\ calls' = calls \cup {"os.makedirs"}
               /\ UNCHANGED out
          ELSE IF uri = "raises"
          THEN /\ Raise(LibraryFailure.cls, LibraryFailure.msg)
               /\ calls' = calls \cup {"os.makedirs", "mlflow.set_tracking_uri"}
               /\ UNCHANGED out
          ELSE /\ out' = out \o RendererOnly(worker,
                    <<Progress("Initialized MLflow tracking")>>
                    \o (CASE experiment = "exists" ->
                               <<Progress("Using existing MLflow experiment")>>
                          [] experiment = "created" ->
                               <<Progress("Created MLflow experiment")>>
                          [] experiment = "lookup_raises" ->
                               <<Progress("Warning: Could not set experiment")>>
                          [] experiment = "set_raises" ->
                               <<Progress("Created MLflow experiment"),
                                 Progress("Warning: Could not set experiment")>>))
               /\ calls' = calls \cup {"os.makedirs", "mlflow.set_tracking_uri",
                                       "mlflow.get_experiment_by_name"}
                             \cup (IF experiment \in {"created", "set_raises"}
                                   THEN {"mlflow.create_experiment"} ELSE {})
                             \cup (IF experiment # "lookup_raises"
                                   THEN {"mlflow.set_experiment"} ELSE {})
               /\ pc' = "prepare"
               /\ UNCHANGED exc
    /\ UNCHANGED <<http, api, worker, installed, stdin, config, local, exitCode>>
    /\ UNCHANGED jobVars

\* prepare_dataset of the GEPA workers: NoExc, or the exception it raises
\* (the three tests of an item are one here: each names the item's index)
GepaPrepareDataset(dataset, name) ==
    IF Len(dataset.items) = 0 THEN Exc("ValueError", name \o " is empty")
    ELSE IF FirstIncomplete(dataset.items) # 0
    THEN Exc("ValueError",
             IndexedName(name, FirstIncomplete(dataset.items)) \o " missing field")
    ELSE NoExc

\* the list prepare_dataset of the GEPA workers returns: the items themselves,
\* appended in the order of the input
GepaPrepared(items) == [i \in DOMAIN items |-> items[i]]

\* Step 4: prepare_dataset(config['train_dataset'], 'train_dataset')
PrepareTrainData ==
    /\ pc = "prepare"
    /\ worker \in GepaWorkers
    /\ out' = out \o RendererOnly(worker, <<Progress("Preparing dataset...")>>)
    /\ LET prepared == GepaPrepareDataset(config.train_dataset, "train_dataset")
       IN  IF config = NoConfig
           THEN Raise("TypeError", "train_dataset") /\ UNCHANGED local
           ELSE IF ~config.train_dataset.present
           THEN Raise("KeyError", "train_dataset") /\ UNCHANGED local
           ELSE IF prepared # NoExc
           THEN Raise(prepared.cls, prepared.msg) /\ UNCHANGED local
           ELSE /\ local' = [local EXCEPT !.train = Len(config.train_dataset.items),
                                          !.prepared = GepaPrepared(config.train_dataset.items)]
                /\ pc' = "prompt"
                /\ UNCHANGED exc
    /\ UNCHANGED <<http, api, worker, installed, stdin, config, calls, exitCode>>
    /\ UNCHANGED jobVars

\* register_prompt_with_mlflow: register, on failure load, on failure raise
RegisterPromptWithMlflow(outcome) ==
    CASE outcome = "registered" ->
           [msgs |-> <<Progress("Registered prompt")>>,
            calls |-> {"mlflow.genai.register_prompt"},
            exc |-> NoExc]
      [] outcome = "loaded" ->
           [msgs |-> <<Progress("Prompt registration failed, attempting to load"),
                       Progress("Loaded existing prompt")>>,
            calls |-> {"mlflow.genai.register_prompt", "mlflow.genai.load_prompt"},
            exc |-> NoExc]
      [] outcome = "failed" ->
           [msgs |-> <<Progress("Prompt registration failed, attempting to load")>>,
            calls |-> {"mlflow.genai.register_prompt", "mlflow.genai.load_prompt"},
            exc |-> Exc("RuntimeError", "Failed to register or load prompt")]

\* the template of the latest prompt the registry holds under the job's
\* prompt name: the job's initial prompt, or that of an earlier job
StoredTemplates == {"requested", "other"}

\* the prompt object register_prompt_with_mlflow returns: the one registered,
\* or the latest one stored under the name
RegisteredPrompt(outcome, stored) ==
    CASE outcome = "registered" -> [template |-> "requested", resolves |-> TRUE]
      [] outcome = "loaded" -> [template |-> stored, resolves |-> TRUE]
      [] outcome = "failed" -> NoPrompt

\* SimplePrompt(initial_prompt): the requested template under a URI nothing
\* was stored at
SimplePrompt == [template |-> "requested", resolves |-> FALSE]

\* the prompt object of optimize_with_gepa: registered, else loaded, else a
\* SimplePrompt
ApiPrompt(outcome, stored) ==
    IF outcome = "failed" THEN SimplePrompt ELSE RegisteredPrompt(outcome, stored)

\* Steps 5 to 7: the initial prompt, the input key, the prompt registration
RegisterPrompt ==
    /\ pc = "prompt"
    /\ worker \in GepaWorkers
    /\ \E hasInputKey \in BOOLEAN, outcome \in {"registered", "loaded", "failed"},
          stored \in StoredTemplates :
          LET reg == RegisterPromptWithMlflow(outcome)
          IN  /\ out' = out
                    \o RendererOnly(worker, <<Progress("Initial prompt template")>>)
                    \o (IF hasInputKey
                        THEN RendererOnly(worker, <<Progress("Detected input key")>>)
                        ELSE <<>>)
                    \o reg.msgs
              /\ calls' = calls \cup reg.calls
              /\ local' = [local EXCEPT !.prompt = RegisteredPrompt(outcome, stored)]
              /\ IF reg.exc # NoExc
                 THEN Raise(reg.exc.cls, reg.exc.msg)
                 ELSE pc' = "predict_fn" /\ UNCHANGED exc
    /\ UNCHANGED <<http, api, worker, installed, stdin, config, exitCode>>
    /\ UNCHANGED jobVars

\* Step 8: config['model_config'] and the definition of predict_fn
CreatePredictFn ==
    /\ pc = "predict_fn"
    /\ worker \in GepaWorkers
    /\ out' = out \o RendererOnly(worker, <<Progress("Creating prediction function...")>>)
    /\ IF config.model_config = "absent"
       THEN Raise("KeyError", "model_config")
       ELSE pc' = "scorers" /\ UNCHANGED exc
    /\ UNCHANGED <<http, api, worker, installed, stdin, config, calls, local, exitCode>>
    /\ UNCHANGED jobVars

\* the scorer types create_scorers iterates over
ScorerList(scorerConfig) ==
    CASE scorerConfig \in {"absent", "empty", "correctness"} -> <<"correctness">>
      [] scorerConfig = "safety" -> <<"safety">>
      [] scorerConfig = "bogus" -> <<"bogus">>
      [] scorerConfig = "correctness+bogus" -> <<"correctness", "bogus">>

KnownScorers(list) == {i \in DOMAIN list : list[i] \in {"correctness", "safety"}}

\* Step 9: create_scorers and create_aggregation_fn
CreateScorers ==
    /\ pc = "scorers"
    /\ worker \in GepaWorkers
    /\ \E constructor \in LibraryOutcomes :
          LET list == ScorerList(config.scorer_config)
              known == KnownScorers(list)
              skipped == IF Cardinality(known) < Len(list)
                         THEN <<Progress("Unknown scorer type, skipping")>> ELSE <<>>
          IN  IF constructor = "raises" /\ known # {}
              THEN /\ out' = out \o RendererOnly(worker, <<Progress("Creating scorers...")>>)
                   /\ calls' = calls \cup {"mlflow.genai.scorers"}
                   /\ Raise(LibraryFailure.cls, LibraryFailure.msg)
                   /\ UNCHANGED local
              ELSE /\ out' = out
                        \o RendererOnly(worker, <<Progress("Creating scorers...")>>)
                        \o skipped
                        \o RendererOnly(worker, <<Progress("Using scorer(s)")>>)
                   /\ calls' = IF known # {} THEN calls \cup {"mlflow.genai.scorers"}
                               ELSE calls
                   /\ local' = [local EXCEPT !.scorers = Cardinality(known)]
                   /\ pc' = "optimize"
                   /\ UNCHANGED exc
    /\ UNCHANGED <<http, api, worker, installed, stdin, config, exitCode>>
    /\ UNCHANGED jobVars

\* what get_model_client hands back: a client of a provider SDK, the
\* descriptor that defers the call to LiteLLM, or an exception
SdkClient(sdk) == [kind |-> "client", of |-> sdk, exc |-> NoExc]

LiteLlmDescriptor(provider) == [kind |-> "litellm", of |-> provider, exc |-> NoExc]

ClientError(provider) ==
    [kind |-> "raises", of |-> provider,
     exc |-> Exc("ValueError", "Unsupported provider")]

\* get_model_client of the backend module (selector "backend") and of the
\* renderer module (selector "renderer"), as a function of the provider
get_model_client(selector, provider) ==
    CASE provider = "openai" -> SdkClient("openai")
      [] provider = "anthropic" -> SdkClient("anthropic")
      [] provider = "google" -> SdkClient("google.generativeai")
      [] provider = "gemini" /\ selector = "backend" -> SdkClient("google.generativeai")
      [] provider = "ollama" /\ selector = "renderer" -> SdkClient("openai")
      [] selector = "backend" -> LiteLlmDescriptor(provider)
      [] OTHER -> ClientError(provider)

\* the module whose get_model_client a worker's main() uses
SelectorOf(w) == IF w = "gepa_renderer" THEN "renderer" ELSE "backend"

\* the providers the predict_fn of a GEPA worker's main() has a branch for
PredictFnProviders == {"openai", "ollama", "anthropic", "google"}

\* one call of the predict_fn main() defines: the exception it raises before
\* any request is sent, NoExc if it sends one. The backend selector returns a
\* dictionary, on which the attribute lookups of every branch fail
PredictFn(w, provider) ==
    LET client == get_model_client(SelectorOf(w), provider)
    IN  IF client.kind = "raises" THEN client.exc
        ELSE IF provider \notin PredictFnProviders
        THEN Exc("ValueError", "Unsupported provider")
        ELSE IF SelectorOf(w) = "backend"
        THEN Exc("AttributeError", "'dict' object has no attribute")
        ELSE NoExc

\* what one call of predict_fn comes to: the completion's text, or the class
\* of the exception it raises
PredictFnResult(w, provider) ==
    IF PredictFn(w, provider) = NoExc THEN "text" ELSE PredictFn(w, provider).cls

\* Step 10: run_gepa_optimization. The optimization calls predict_fn, which
\* looks at the provider only then; what predict_fn raises either leaves
\* optimize_prompts or is absorbed by it
RunGepaOptimization ==
    /\ pc = "optimize"
    /\ worker \in GepaWorkers
    /\ \E fault \in {"none", "constructor", "optimize", "predict_fn"} :
          /\ LET starting ==
                     BackendOnly(worker, <<Progress("Starting optimization")>>)
                     \o RendererOnly(worker, <<Progress("Starting GEPA optimization"),
                                               Progress("Max metric calls"),
                                               Progress("Training examples")>>)
             IN  IF fault = "constructor"
                 THEN /\ out' = out \o starting
                      /\ calls' = calls \cup {"GepaPromptOptimizer"}
                      /\ Raise(LibraryFailure.cls, LibraryFailure.msg)
                 ELSE IF fault = "predict_fn"
                         /\ PredictFn(worker, config.model_config) # NoExc
                 THEN /\ out' = out \o starting \o <<Progress("Running optimization...")>>
                      /\ calls' = calls \cup {"GepaPromptOptimizer",
                                              "mlflow.genai.optimize_prompts"}
                      /\ Raise(PredictFn(worker, config.model_config).cls,
                               PredictFn(worker, config.model_config).msg)
                 ELSE IF fault = "optimize"
                 THEN /\ out' = out \o starting \o <<Progress("Running optimization...")>>
                      /\ calls' = calls \cup {"GepaPromptOptimizer",
                                              "mlflow.genai.optimize_prompts"}
                      /\ Raise(LibraryFailure.cls, LibraryFailure.msg)
                 ELSE /\ out' = out \o starting
                                  \o <<Progress("Running optimization..."),
                                       Progress("Optimization complete")>>
                      /\ calls' = calls \cup {"GepaPromptOptimizer",
                                              "mlflow.genai.optimize_prompts"}
                      /\ pc' = "extract"
                      /\ UNCHANGED exc
          \* predict_fn asks get_model_client for a client each time it is called
          /\ local' = IF fault \in {"none", "predict_fn"}
                      THEN [local EXCEPT
                              !.client = get_model_client(SelectorOf(worker),
                                                          config.model_config).kind,
                              !.predict = PredictFnResult(worker, config.model_config)]
                      ELSE local
    /\ UNCHANGED <<http, api, worker, installed, stdin, config, exitCode>>
    /\ UNCHANGED jobVars

\* an attribute of the result object: absent, a number, or None
AttrKinds == {"missing", "number", "none"}

\* the object optimize_prompts returned, as extract_optimization_results
\* looks at it: the two scores, the optimizer name, optimized_prompts
\* (absent, an empty list, or a list whose first prompt has a template, has
\* no template but a text, or has neither) and the iteration count (absent,
\* under the name iterations, or under the name num_iterations)
ResultShapes ==
    [initial_eval_score : AttrKinds,
     final_eval_score : AttrKinds,
     optimizer_name : {"missing", "present"},
     optimized_prompts : {"missing", "empty", "template", "text", "neither"},
     iterations : {"missing", "iterations", "num_iterations"}]

\* the dictionary extract_optimization_results starts from
ExtractionDefaults ==
    [initial_score |-> 0, final_score |-> 0, optimized_prompt_text |-> "",
     optimizer_name |-> "", iterations |-> 0]

\* the text taken from the first optimized prompt
OptimizedPromptText(prompts) ==
    CASE prompts = "template" -> "str(template)"
      [] prompts = "text" -> "str(text)"
      [] prompts = "neither" -> "str(prompt)"
      [] OTHER -> ""

\* extract_optimization_results: the dictionary it returns and whether its
\* except clause ran. The assignments are made in the order of the try
\* block, which float(None) leaves at the first score that is None; scores
\* are in hundredths (a number is 0.40 for the initial and 0.90 for the
\* final score), an iteration count is 7
extract_optimization_results(result) ==
    LET d1 == IF result.initial_eval_score = "number"
              THEN [ExtractionDefaults EXCEPT !.initial_score = 40]
              ELSE ExtractionDefaults
        d2 == IF result.final_eval_score = "number"
              THEN [d1 EXCEPT !.final_score = 90] ELSE d1
        d3 == IF result.optimizer_name = "present"
              THEN [d2 EXCEPT !.optimizer_name = "str(optimizer_name)"] ELSE d2
        d4 == [d3 EXCEPT !.optimized_prompt_text =
                            OptimizedPromptText(result.optimized_prompts)]
        d5 == IF result.iterations = "missing" THEN d4
              ELSE [d4 EXCEPT !.iterations = 7]
    IN  IF result.initial_eval_score = "none"
        THEN [extracted |-> ExtractionDefaults, warned |-> TRUE]
        ELSE IF result.final_eval_score = "none"
        THEN [extracted |-> d1, warned |-> TRUE]
        ELSE [extracted |-> d5, warned |-> FALSE]

\* whether the except clause ran, over the result objects
ExtractionWarned == {extract_optimization_results(result).warned : result \in ResultShapes}

\* extract_optimization_results of either GEPA module is called on a result
\* object and returns
ExtractResults ==
    /\ WorkerIdle
    /\ \E module \in {"renderer", "backend"}, result \in ResultShapes :
          extraction' = [called |-> TRUE, module |-> module, result |-> result,
                         returned |-> extract_optimization_results(result).extracted,
                         warned |-> extract_optimization_results(result).warned]
    /\ UNCHANGED <<http, api, worker, pc, installed, stdin, config, out, exc, calls,
                   local, exitCode, environ, jobs>>

\* Step 11: extract_optimization_results; its own try block reports a failure
\* as progress
ExtractOptimizationResults ==
    /\ pc = "extract"
    /\ worker \in GepaWorkers
    /\ \E warned \in ExtractionWarned :
          IF ~warned
          THEN /\ out' = out \o RendererOnly(worker, <<Progress("Extracted results")>>)
               /\ local' = [local EXCEPT !.extracted = TRUE]
          ELSE /\ out' = out \o <<Progress("Warning: Could not fully extract results")>>
                             \o RendererOnly(worker, <<Progress("Traceback")>>)
               /\ local' = [local EXCEPT !.extracted = FALSE]
    /\ pc' = "report"
    /\ UNCHANGED <<http, api, worker, installed, stdin, config, exc, calls, exitCode>>
    /\ UNCHANGED jobVars

-----------------------------------------------------------------------------
(* The end of main() in the three workers *)

\* the progress message main() writes right before the success result
CompletionProgress(w) ==
    CASE w = "dspy" -> <<Progress("Optimization complete! Validation score")>>
      [] w = "gepa_renderer" -> <<Progress("Optimization complete! Score improved")>>
      [] OTHER -> <<>>

\* Last step: the success result is built, serialised and printed, and
\* sys.exit(0) raises SystemExit inside the try block
ReportSuccess ==
    /\ pc = "report"
    /\ \E serialisation \in LibraryOutcomes :
          IF serialisation = "raises"
          THEN /\ out' = out \o CompletionProgress(worker)
               /\ Raise("TypeError", "Object is not JSON serializable")
               /\ UNCHANGED local
          ELSE /\ out' = out \o CompletionProgress(worker) \o <<SuccessMessage>>
               /\ local' = [local EXCEPT !.exitArg = 0]
               /\ Raise("SystemExit", "0")
    /\ UNCHANGED <<http, api, worker, installed, stdin, config, calls, exitCode>>
    /\ UNCHANGED jobVars

\* does main()'s `except Exception` clause take this exception
MainCatchesAll(cls) == IsSubclass(cls, "BaseException")
MainCatches(cls) == CaughtAsException(cls)

\* the except clause of main(): log_error(str(e), traceback.format_exc()) and
\* sys.exit(1); an exception the clause does not take leaves main(), and the
\* interpreter exits with SystemExit's argument
MainExceptSilent(e, exitArg) ==
    [msgs |-> <<>>, code |-> IF e.cls = "SystemExit" THEN exitArg ELSE 1]
MainExceptExitZero(e, exitArg) ==
    IF MainCatches(e.cls)
    THEN [msgs |-> <<LogError(e.msg, TRUE)>>, code |-> 0]
    ELSE [msgs |-> <<>>, code |-> IF e.cls = "SystemExit" THEN exitArg ELSE 1]
MainExcept(e, exitArg) ==
    IF MainCatches(e.cls)
    THEN [msgs |-> <<LogError(e.msg, TRUE)>>, code |-> 1]
    ELSE [msgs |-> <<>>, code |-> IF e.cls = "SystemExit" THEN exitArg ELSE 1]

\* the exception raised in the try block reaches the end of main() and the
\* process exits
TopLevelExcept ==
    /\ pc = "raised"
    /\ out' = out \o MainExcept(exc, local.exitArg).msgs
    /\ exitCode' = MainExcept(exc, local.exitArg).code
    /\ pc' = "exited"
    /\ UNCHANGED <<http, api, worker, installed, stdin, config, exc, calls, local>>
    /\ UNCHANGED jobVars

-----------------------------------------------------------------------------
(* optimize_with_gepa: the function the GEPA route is written to call *)

ApiProviders == {"openai", "anthropic", "google", "ollama", "bogus"}

\* the SDK get_model_client imports for a provider ("none": no import there)
ProviderSdk(provider) ==
    CASE provider = "openai" -> "openai"
      [] provider = "anthropic" -> "anthropic"
      [] provider \in {"google", "gemini"} -> "google.generativeai"
      [] OTHER -> "none"

\* a tuning knob of the request's config object: <<>> when the key is absent,
\* else the number given
Knobs == {<<>>, <<2>>, <<3>>}

\* dict.get(key, default) on a knob
KnobOr(knob, default) == IF knob = <<>> THEN default ELSE knob[1]

\* the request's config object: absent, or an object with the two knobs
RequestConfigs ==
    [present : {TRUE}, populationSize : Knobs, numGenerations : Knobs]
    \cup [present : {FALSE}, populationSize : {<<>>}, numGenerations : {<<>>}]

\* the gepa_config the route builds from data.get('config', {})
RouteGepaConfig(requestConfig) ==
    [population_size |-> <<KnobOr(requestConfig.populationSize, 10)>>,
     num_generations |-> <<KnobOr(requestConfig.numGenerations, 5)>>]

\* max_metric_calls of optimize_with_gepa
MaxMetricCallsSum(gepaConfig) ==
    KnobOr(gepaConfig.num_generations, 5) + KnobOr(gepaConfig.population_size, 10)
MaxMetricCalls(gepaConfig) ==
    KnobOr(gepaConfig.num_generations, 5) * KnobOr(gepaConfig.population_size, 10)

ApiConfigs ==
    [dataset : ExampleShapes, model_configs : {"empty"} \cup ApiProviders,
     request_config : RequestConfigs]

\* the provider get_model_client sees: the first entry's, 'ollama' by default
ApiProvider(cfg) ==
    IF cfg.model_configs = "empty" THEN "ollama" ELSE cfg.model_configs

\* the provider in the reflection model string: 'openai' by default, google
\* renamed gemini
ReflectionProvider(cfg) ==
    LET provider == IF cfg.model_configs = "empty" THEN "openai" ELSE cfg.model_configs
    IN  IF provider = "google" THEN "gemini" ELSE provider

\* the provider predict_fn sends its request to: the one named by the type
\* tag of client_info, or the one litellm routes to
PredictionProvider(cfg) ==
    LET client_info == get_model_client("backend", ApiProvider(cfg))
    IN  IF client_info.kind = "client" /\ client_info.of = "google.generativeai"
        THEN "google"
        ELSE client_info.of

\* reflection_model = f"{provider}:/{model_name}"
ReflectionModel(cfg) == ReflectionProvider(cfg) \o ":/" \o "model"

\* what the body of optimize_with_gepa has set up when it reaches the
\* optimizer: the provider predict_fn calls, the model strings of the scorer
\* and of the optimizer, and the optimizer's budget
NoSetup ==
    [predictor |-> "none", scorerModel |-> "none", optimizerModel |-> "none",
     budget |-> 0]

ApiSetup(cfg) ==
    [predictor |-> PredictionProvider(cfg),
     scorerModel |-> ReflectionModel(cfg),
     optimizerModel |-> ReflectionModel(cfg),
     budget |-> MaxMetricCalls(RouteGepaConfig(cfg.request_config))]

ApiError(cause) == [type |-> "error", cause |-> cause, has_optimized_prompt |-> FALSE]

ApiSuccess == [type |-> "success", cause |-> "none", has_optimized_prompt |-> TRUE]

\* the result dictionary optimize_with_gepa returns
optimize_with_gepa(cfg, inst, tracking, optimization, scores) ==
    IF "mlflow" \notin inst THEN ApiError("mlflow ImportError")
    ELSE IF tracking = "raises" THEN ApiError("RuntimeError")
    ELSE IF cfg.dataset = "missing_key" THEN ApiError("KeyError")
    ELSE IF ProviderSdk(ApiProvider(cfg)) \notin inst \cup {"none"}
    THEN ApiError("sdk ImportError")
    ELSE IF optimization = "raises" THEN ApiError("RuntimeError")
    ELSE IF scores = "raises" THEN ApiError("TypeError")
    ELSE ApiSuccess

\* the external calls optimize_with_gepa has made when it returns, in the
\* order of its body: tracking setup, prompt registration, client
\* construction, environment write, scorer, optimizer, optimization
optimize_with_gepa_calls(cfg, inst, tracking, optimization, scores) ==
    LET setup == {"os.makedirs", "mlflow.set_tracking_uri"}
        experiment == {"mlflow.get_experiment_by_name"}
        registration == {"mlflow.genai.register_prompt"}
        run == {"os.environ", "mlflow.genai.scorers", "GepaPromptOptimizer",
                "mlflow.genai.optimize_prompts"}
    IN  IF "mlflow" \notin inst THEN {}
        ELSE IF tracking = "raises" THEN setup
        ELSE IF cfg.dataset = "missing_key" THEN setup \cup experiment
        ELSE IF ProviderSdk(ApiProvider(cfg)) \notin inst \cup {"none"}
        THEN setup \cup experiment \cup registration
        ELSE setup \cup experiment \cup registration \cup run

\* optimize_with_gepa is called with a configuration and returns
OptimizeWithGepa ==
    /\ WorkerIdle
    /\ \E cfg \in ApiConfigs,
          inst \in SUBSET {"mlflow", "openai", "anthropic", "google.generativeai"},
          tracking \in LibraryOutcomes, optimization \in LibraryOutcomes,
          scores \in LibraryOutcomes,
          registration \in {"registered", "loaded", "failed"},
          stored \in StoredTemplates :
          /\ api' = [called |-> TRUE, config |-> cfg,
                     result |-> optimize_with_gepa(cfg, inst, tracking, optimization,
                                                   scores),
                     calls |-> optimize_with_gepa_calls(cfg, inst, tracking,
                                                        optimization, scores),
                     optimized |-> /\ optimization = "ok"
                                   /\ "mlflow.genai.optimize_prompts" \in
                                         optimize_with_gepa_calls(cfg, inst, tracking,
                                                                  optimization, scores),
                     client |-> IF "mlflow.genai.register_prompt" \in
                                      optimize_with_gepa_calls(cfg, inst, tracking,
                                                               optimization, scores)
                                THEN IF ProviderSdk(ApiProvider(cfg)) \notin inst \cup {"none"}
                                     THEN "ImportError"
                                     ELSE get_model_client("backend", ApiProvider(cfg)).kind
                                ELSE "none",
                     setup |-> IF "GepaPromptOptimizer" \in
                                     optimize_with_gepa_calls(cfg, inst, tracking,
                                                              optimization, scores)
                               THEN ApiSetup(cfg) ELSE NoSetup,
                     prompt |-> IF "mlflow.genai.register_prompt" \in
                                      optimize_with_gepa_calls(cfg, inst, tracking,
                                                               optimization, scores)
                                THEN ApiPrompt(registration, stored) ELSE NoPrompt]
          /\ installed' = inst
    /\ http' = NoHttp
    /\ WorkerReset
    /\ UNCHANGED jobVars

-----------------------------------------------------------------------------
(* Concurrent requests: the Flask server runs each request in a thread of   *)
(* the one backend process, so two calls of optimize_with_gepa share         *)
(* os.environ                                                                *)

\* two GEPA requests for the same provider arrive; each thread gets its client
\* from get_model_client
ServeConcurrently ==
    /\ WorkerIdle
    /\ \E provider \in {"openai", "ollama"} :
          jobs' = [j \in Jobs |->
                     [pc |-> "set_environ", key |-> ApiKeyOf(j),
                      client |-> get_model_client("backend", provider).kind,
                      modelKey |-> "none", scorerKey |-> "none"]]
    /\ UNCHANGED <<http, api, worker, pc, installed, stdin, config, out, exc, calls,
                   local, exitCode, environ, extraction>>

\* os.environ[f"{provider.upper()}_API_KEY"] = api_key, for the scorers
JobSetEnviron(j) ==
    /\ jobs[j].pc = "set_environ"
    /\ environ' = jobs[j].key
    /\ jobs' = [jobs EXCEPT ![j].pc = "predict_fn"]
    /\ UNCHANGED <<http, api, worker, pc, installed, stdin, config, out, exc, calls,
                   local, exitCode, extraction>>

\* the optimization calls predict_fn: an SDK client sends the request with the
\* key it was constructed with; the LiteLLM branch first writes the key to
\* os.environ
JobPredictFn(j) ==
    /\ jobs[j].pc = "predict_fn"
    /\ IF jobs[j].client = "litellm"
       THEN /\ environ' = jobs[j].key
            /\ jobs' = [jobs EXCEPT ![j].pc = "completion"]
       ELSE /\ jobs' = [jobs EXCEPT ![j].pc = "score", ![j].modelKey = jobs[j].key]
            /\ UNCHANGED environ
    /\ UNCHANGED <<http, api, worker, pc, installed, stdin, config, out, exc, calls,
                   local, exitCode, extraction>>

\* litellm.completion sends the request with the key it finds in os.environ
JobCompletion(j) ==
    /\ jobs[j].pc = "completion"
    /\ jobs' = [jobs EXCEPT ![j].pc = "score", ![j].modelKey = environ]
    /\ UNCHANGED <<http, api, worker, pc, installed, stdin, config, out, exc, calls,
                   local, exitCode, environ, extraction>>

\* the Correctness scorer judges the output: its model call takes the key
\* from os.environ
JobScore(j) ==
    /\ jobs[j].pc = "score"
    /\ jobs' = [jobs EXCEPT ![j].pc = "done", ![j].scorerKey = environ]
    /\ UNCHANGED <<http, api, worker, pc, installed, stdin, config, out, exc, calls,
                   local, exitCode, environ, extraction>>

-----------------------------------------------------------------------------

Next ==
    \/ OptimizeDspy
    \/ OptimizeGepa
    \/ OptimizeWithGepa
    \/ StartWorker
    \/ ReadStdin
    \/ ImportLibrary
    \/ SetupLanguageModel
    \/ PrepareDatasets
    \/ CreateMetric
    \/ CreateProgram
    \/ RunMipro
    \/ EvaluateProgram
    \/ ExtractOptimizedResults
    \/ SaveCompiledProgram
    \/ InitTracking
    \/ PrepareTrainData
    \/ RegisterPrompt
    \/ CreatePredictFn
    \/ CreateScorers
    \/ RunGepaOptimization
    \/ ExtractOptimizationResults
    \/ ExtractResults
    \/ ReportSuccess
    \/ TopLevelExcept
    \/ ServeConcurrently
    \/ \E j \in Jobs : JobSetEnviron(j)
    \/ \E j \in Jobs : JobPredictFn(j)
    \/ \E j \in Jobs : JobCompletion(j)
    \/ \E j \in Jobs : JobScore(j)

Spec == Init /\ [][Next]_vars

-----------------------------------------------------------------------------
(* Properties of the HTTP endpoints *)

Handled400Invalid ==
    /\ http.response.status = 400
    /\ http.response.success = FALSE
    /\ http.response.code = "INVALID_REQUEST"

C1_Required(route) ==
    IF route = "dspy" THEN {"prompt", "examples", "model", "provider", "apiKey"}
    ELSE {"prompt", "examples", "providers"}

C1_LacksField ==
    /\ http.route \in {"dspy", "gepa"}
    /\ http.data.kind = "object"
    /\ ~(C1_Required(http.route) \subseteq http.data.keys)

\* C1: on both endpoints a request whose JSON object (the empty object
\* included) lacks a required field is answered 400, success=false,
\* INVALID_REQUEST, and control never reaches the import of the optimizer
\* module nor a call of it.
C1_MissingFieldIs400 ==
    C1_LacksField =>
        /\ Handled400Invalid
        /\ ~http.importReached
        /\ ~http.imported
        /\ http.invoked = 0

\* a DSPy request that lacks only apiKey has been answered 400
C1_Witness ==
    /\ http.route = "dspy"
    /\ http.data.kind = "object"
    /\ http.data.keys = {"prompt", "examples", "model", "provider", "config"}
    /\ Handled400Invalid
    /\ http.response.error = "apiKey"

C_FullWellFormed(route) ==
    /\ http.route = route
    /\ http.data.kind = "object"
    /\ C1_Required(route) \subseteq http.data.keys
    /\ http.data.examples = "ok"

C_OptimizerOutcome ==
    /\ http.imported
    /\ http.invoked = 1
    /\ \/ http.response.status = 200 /\ http.response.success
       \/ /\ http.response.status = 500
          /\ ~http.response.success
          /\ http.response.code = "OPTIMIZATION_FAILED"

\* C2: a DSPy request with all five required fields and well-formed examples
\* loads optimize_prompt, calls it exactly once and is answered 200 with
\* success=true, or 500 with OPTIMIZATION_FAILED.
C2_DspyInvokesOptimizer ==
    C_FullWellFormed("dspy") => C_OptimizerOutcome

\* C3: a GEPA request with prompt, examples and providers, all well formed,
\* loads optimize_with_gepa, calls it exactly once and is answered 200 with
\* success=true, or 500 with OPTIMIZATION_FAILED.
C3_GepaInvokesOptimizer ==
    C_FullWellFormed("gepa") => C_OptimizerOutcome

ErrorCodes == {"INVALID_REQUEST", "DEPENDENCY_MISSING", "OPTIMIZATION_FAILED",
               "INTERNAL_ERROR"}

WellFormedEnvelope(r) ==
    /\ r.success \in BOOLEAN
    /\ r.success <=> r.status = 200
    /\ ~r.success =>
          /\ r.code \in ErrorCodes
          /\ r.code = "INVALID_REQUEST" <=> r.status = 400
          /\ r.code # "INVALID_REQUEST" => r.status = 500

\* C4: every response of the two endpoints is an envelope with success=true
\* exactly on status 200, and on failure a code of the four, INVALID_REQUEST
\* exactly on status 400 and the others on 500; no exception leaves a handler
\* without such an envelope. The same holds of the envelope either route
\* builds from any result an optimizer entry point hands back.
C4_EnvelopeWellFormed ==
    /\ http.route # "none" => WellFormedEnvelope(http.response)
    /\ \A result \in OptimizerResults :
          WellFormedEnvelope(RouteRespond(result, "DSPy not installed"))
    /\ api.called =>
          WellFormedEnvelope(RouteRespond(api.result, "GEPA dependencies not installed"))

\* a request whose body made the handler raise has been answered 500
\* INTERNAL_ERROR
C4_Witness ==
    /\ http.route = "gepa"
    /\ http.data.kind = "truthy_scalar"
    /\ http.response.status = 500
    /\ http.response.code = "INTERNAL_ERROR"

\* C5: when an optional dependency is absent when a job needs it, the response
\* for that job carries DEPENDENCY_MISSING; in particular when MLflow is
\* missing inside optimize_with_gepa.
C5_MissingDependencyCode ==
    /\ (C_FullWellFormed("dspy") /\ "dspy" \notin installed) =>
          http.response.code = "DEPENDENCY_MISSING"
    /\ (api.called /\ "mlflow" \notin installed) =>
          RouteRespond(api.result, "GEPA dependencies not installed").code
              = "DEPENDENCY_MISSING"

-----------------------------------------------------------------------------
(* Properties of the worker protocol *)

Last(seq) == seq[Len(seq)]

Terminal(m) == m.type \in {"success", "error"}

\* only progress messages, then one terminal message of the given type
ProgressThen(seq, type) ==
    /\ Len(seq) >= 1
    /\ Last(seq).type = type
    /\ \A i \in 1 .. (Len(seq) - 1) : seq[i].type = "progress"

\* C6: a worker run whose every step completed (the only exception raised is
\* the exit request after the success message) has written progress messages
\* followed by exactly one success message, no error message, and exits 0.
C6_SuccessfulRun ==
    (pc = "exited" /\ exc.cls = "SystemExit") =>
        /\ ProgressThen(out, "success")
        /\ exitCode = 0

\* a backend GEPA worker run has completed every step and exited
C6_Witness ==
    /\ worker = "gepa_backend"
    /\ pc = "exited"
    /\ exc.cls = "SystemExit"
    /\ local.extracted
    /\ exitCode = 0
    /\ Len(out) > 1

BadStdin == worker # "none" /\ stdin \in {"empty", "whitespace", "malformed"}

\* C7: a worker whose standard input is empty, whitespace or not JSON writes
\* no progress or success message and calls no library; when it has exited it
\* has written exactly one message, an error, and its exit code is not 0.
C7_BadStdin ==
    BadStdin =>
        /\ calls = {}
        /\ \A i \in DOMAIN out : out[i].type = "error"
        /\ Len(out) <= 1
        /\ pc = "exited" => (Len(out) = 1 /\ exitCode \notin {0, NotExited})

\* the renderer worker has exited on whitespace-only standard input
C7_Witness ==
    /\ worker = "gepa_renderer"
    /\ stdin = "whitespace"
    /\ pc = "exited"
    /\ Len(out) = 1

\* C8: nothing follows a terminal message, and a terminated run has written
\* exactly one terminal message, the last one; so no run writes both a
\* success and an error message.
C8_TerminalIsLast ==
    /\ \A i \in 1 .. (Len(out) - 1) : ~Terminal(out[i])
    /\ pc = "exited" => (Len(out) >= 1 /\ Terminal(Last(out)))

\* a DSPy worker run has ended with an error after several progress messages
C8_Witness ==
    /\ worker = "dspy"
    /\ pc = "exited"
    /\ Len(out) > 4
    /\ Last(out).type = "error"

\* C9: the exit code of a worker run is 0 exactly when the last message is a
\* success and 1 exactly when it is an error.
C9_ExitCodeAgrees ==
    pc = "exited" =>
        /\ Len(out) >= 1
        /\ exitCode = 0 <=> Last(out).type = "success"
        /\ exitCode = 1 <=> Last(out).type = "error"

\* a renderer worker run has failed in the optimization and exited 1
C9_Witness ==
    /\ worker = "gepa_renderer"
    /\ pc = "exited"
    /\ "mlflow.genai.optimize_prompts" \in calls
    /\ exitCode = 1
    /\ Last(out).type = "error"

\* a step of the run raised (the exception is not the exit request)
StepRaised == exc.cls \notin {"NoExc", "SystemExit"}

-----------------------------------------------------------------------------
(* Properties of validation and of the order of side effects *)

\* the training list of the parsed configuration is present and empty
EmptyTrainList ==
    /\ worker # "none"
    /\ config # NoConfig
    /\ config.train_dataset.present
    /\ Len(config.train_dataset.items) = 0

\* C11: in every worker a configuration whose training example list is empty
\* never gets past the dataset validation; the validation failure is reported
\* as the error message 'train_dataset is empty' with exit code 1; and when
\* that failure is raised the worker has made no call into an external
\* library or service.
C11_EmptyListBeforeExternalCall ==
    /\ EmptyTrainList =>
          /\ pc \notin {"metric", "program", "prompt", "predict_fn", "scorers",
                        "optimize", "evaluate", "extract", "save", "report"}
          /\ exc.cls # "SystemExit"
    /\ (worker # "none" /\ exc.msg = "train_dataset is empty") =>
          /\ EmptyTrainList
          /\ pc = "exited" =>
                (Last(out).text = "train_dataset is empty" /\ exitCode = 1)
          /\ calls = {}


\* every required key is present, but the examples list is empty or holds an
\* example without input or expected_output
C12_BadExamples ==
    /\ http.route \in {"dspy", "gepa"}
    /\ http.data.kind = "object"
    /\ C1_Required(http.route) \subseteq http.data.keys
    /\ http.data.examples \in {"empty", "missing_key"}

\* C12: at the HTTP endpoints a request with all required keys whose examples
\* list is empty, or holds an example lacking input or expected_output, is
\* answered 400 INVALID_REQUEST with no optimizer call; and optimize_with_gepa,
\* handed such a dataset, yields a result the route answers the same way,
\* having made no MLflow call.
C12_BadExamplesAre400 ==
    /\ C12_BadExamples => (Handled400Invalid /\ http.invoked = 0)
    /\ (api.called /\ api.config.dataset \in {"empty", "missing_key"}
            /\ "mlflow" \in installed) =>
          /\ RouteRespond(api.result, "GEPA dependencies not installed")
                = InvalidRequest("examples")
          /\ api.calls = {}


\* some item of the dataset lacks a required field
C13_Incomplete(dataset) == dataset.present /\ FirstIncomplete(dataset.items) # 0

\* the error text that names the first offending item of a dataset
C13_FirstOffender(name, dataset) ==
    IndexedName(name, FirstIncomplete(dataset.items)) \o " missing field"

\* every error text of prepare_dataset that names an item
C13_IndexMessages ==
    {IndexedName(name, i) \o " missing field" :
        name \in {"train_dataset", "val_dataset"}, i \in 1 .. (MaxExamples + 1)}

\* the positions of main() after dataset preparation
C13_AfterPrepare ==
    {"metric", "program", "prompt", "predict_fn", "scorers", "optimize", "evaluate",
     "extract", "save", "report"}

OptimizerCalls ==
    {"MIPROv2", "optimizer.compile", "GepaPromptOptimizer",
     "mlflow.genai.optimize_prompts"}

\* C13: dataset preparation in the workers is all-or-nothing. When an item of
\* a dataset lacks a required field, no prepared list is returned for that
\* dataset, main() never gets past the preparation and the optimizer is never
\* called, and the error prepare_dataset raises names the index of the first
\* offending item; when every item is complete, the prepared list has the
\* length and the order of the input.
C13_AllOrNothing ==
    (worker # "none" /\ config # NoConfig) =>
        /\ C13_Incomplete(config.train_dataset) => local.prepared = <<>>
        /\ (C13_Incomplete(config.train_dataset) \/ C13_Incomplete(config.val_dataset)) =>
              /\ calls \cap OptimizerCalls = {}
              /\ pc \notin C13_AfterPrepare
              /\ exc.cls # "SystemExit"
        /\ exc.msg \in C13_IndexMessages =>
              IF C13_Incomplete(config.train_dataset)
              THEN exc.msg = C13_FirstOffender("train_dataset", config.train_dataset)
              ELSE /\ C13_Incomplete(config.val_dataset)
                   /\ exc.msg = C13_FirstOffender("val_dataset", config.val_dataset)
        /\ local.prepared # <<>> =>
              /\ Len(local.prepared) = Len(config.train_dataset.items)
              /\ \A i \in DOMAIN config.train_dataset.items :
                    local.prepared[i] =
                        IF worker = "dspy" THEN DspyExample(config.train_dataset.items[i])
                        ELSE config.train_dataset.items[i]

\* a DSPy worker run has ended on a training list whose first and second items
\* both lack a field, with the error naming the first
C13_Witness ==
    /\ worker = "dspy"
    /\ pc = "exited"
    /\ config.train_dataset.items = <<"incomplete", "incomplete">>
    /\ exc.msg = "train_dataset[0] missing field"
    /\ Last(out).text = exc.msg
    /\ local.prepared = <<>>


\* the parsed configuration names a provider no branch of the worker handles
C14_UnknownProvider ==
    /\ worker # "none"
    /\ config # NoConfig
    /\ config.model_config = "bogus"

\* C14: in every worker a configuration naming an unsupported provider never
\* ends in success, and when the error 'Unsupported provider' is raised the
\* run has left no side effect behind: no tracking directory or experiment,
\* no registered prompt, no global language model, no optimizer call (the
\* set of external calls made is empty).
C14_UnknownProviderNoSideEffect ==
    C14_UnknownProvider =>
        /\ exc.cls # "SystemExit"
        /\ exc.msg = "Unsupported provider" => calls = {}


\* C15: in the DSPy worker a configuration whose optimizer is neither 'MIPRO'
\* nor 'MIPROv2' never ends in success, and when the error 'Unknown optimizer'
\* is raised the run has performed no side effect: the global language model
\* is not configured, no progress message has been written, nothing has been
\* saved to disk.
C15_UnknownOptimizerNoSideEffect ==
    /\ (worker = "dspy" /\ config # NoConfig /\ config.optimizer = "bogus") =>
          exc.cls # "SystemExit"
    /\ (worker = "dspy" /\ exc.msg = "Unknown optimizer") =>
          /\ "dspy.configure" \notin calls
          /\ \A i \in DOMAIN out : out[i].type # "progress"
          /\ "compiled_program.save" \notin calls


\* the providers each selector's documentation lists
C16_KnownProviders(selector) ==
    IF selector = "backend" THEN {"ollama", "openai", "anthropic", "google", "gemini"}
    ELSE {"ollama", "openai", "anthropic", "google"}

\* C16: get_model_client, given a provider that is not one of its known
\* providers, raises a descriptive error instead of returning a client or a
\* routing descriptor; both for the selector optimize_with_gepa and the
\* backend worker use and for the one the renderer worker uses.
C16_UnknownProviderRaises ==
    /\ (api.called /\ api.client \notin {"none", "ImportError"}
            /\ ApiProvider(api.config) \notin C16_KnownProviders("backend")) =>
          api.client = "raises"
    /\ (worker \in GepaWorkers /\ local.client # "none"
            /\ config.model_config \notin C16_KnownProviders(SelectorOf(worker))) =>
          local.client = "raises"


-----------------------------------------------------------------------------
(* Properties of concurrently served requests *)

\* C17: when two GEPA requests with different API keys for the same provider
\* are served concurrently, every model call and every scorer call made for a
\* job uses that job's own key, under every interleaving; no job reads a value
\* of the process environment the other job wrote.
C17_JobsUseOwnKey ==
    \A j \in Jobs :
        /\ jobs[j].modelKey \in {"none", jobs[j].key}
        /\ jobs[j].scorerKey \in {"none", jobs[j].key}


-----------------------------------------------------------------------------
(* Properties of result extraction and of failure handling *)

\* the last progress message a failed extraction writes
C18_ExtractionWarnings ==
    {Progress("Warning: Could not fully extract results"), Progress("Traceback")}

\* C18: a failure during result extraction is never fatal. A call of
\* optimize_with_gepa whose optimization returned yields a result of type
\* 'success' whatever the returned object holds; a worker whose extraction
\* failed has only logged a warning and goes on to report its result.
C18_ExtractionNeverFatal ==
    /\ (api.called /\ api.optimized) => api.result.type = "success"
    /\ (worker # "none" /\ Len(out) > 0 /\ Last(out) \in C18_ExtractionWarnings) =>
          /\ pc \in {"save", "report"}
          /\ exc = NoExc
          /\ ~local.extracted


\* the progress messages a worker writes when a step other than result
\* extraction has failed
C19_FailureMessages ==
    {Progress("Prompt registration failed, attempting to load"),
     Progress("Warning: Could not set experiment"),
     Progress("SemanticF1 not available, falling back to exact match"),
     Progress("Unknown program type, using 'predict'"),
     Progress("Unknown scorer type, skipping")}

\* C19: apart from result extraction no failure inside a job is retried or
\* recovered from. Once a step has failed (prompt registration, experiment
\* setup, import of the requested metric, unknown program type or scorer
\* type) the job is on its way to an error outcome: no later step writes
\* anything but the error message, and the run does not end in success.
C19_NoRecovery ==
    \A i \in DOMAIN out :
        out[i] \in C19_FailureMessages =>
            /\ pc \in {"raised", "exited"}
            /\ exc.cls # "SystemExit"
            /\ \/ i = Len(out)
               \/ i + 1 = Len(out) /\ out[i + 1].type = "error"


\* the providers the documentation of setup_language_model lists
C20_DocumentedProviders == {"ollama", "openai", "anthropic"}

\* C20: the DSPy worker's setup_language_model accepts every provider its
\* documentation lists: for none of them it raises 'Unsupported provider',
\* and once the step is over the language model has been constructed and
\* installed as the global DSPy model.
C20_DocumentedProvidersAccepted ==
    (worker = "dspy" /\ config # NoConfig
        /\ config.model_config \in C20_DocumentedProviders) =>
        /\ exc.msg # "Unsupported provider"
        /\ pc \in {"prepare", "metric", "program", "optimize", "evaluate", "extract",
                   "save", "report"} =>
              {"dspy.LM", "dspy.configure"} \subseteq calls


-----------------------------------------------------------------------------
(* Properties of the DSPy worker's datasets, score and saved program *)

\* the configuration supplies no validation set, or an empty one
NoValidationSet ==
    /\ worker = "dspy"
    /\ config # NoConfig
    /\ ~(config.val_dataset.present /\ Len(config.val_dataset.items) > 0)

\* C21: in the DSPy worker, when no validation set (or an empty one) is
\* supplied, neither the training set nor the validation set handed to the
\* optimizer is empty, whatever the number of examples.
C21_SplitSetsNonEmpty ==
    (NoValidationSet /\ "optimizer.compile" \in calls) =>
        /\ local.train > 0
        /\ local.val > 0


\* floor(0.8 * n)
C22_Floor80(n) == (4 * n) \div 5

\* C22: in the DSPy worker, when the examples are split, training is the
\* first floor(0.8 n) prepared examples and validation the remaining ones, in
\* order: the two together are the prepared list, each example in exactly one
\* of them, and the two sizes the success message reports add up to n; when a
\* non-empty validation set is supplied the training set is the whole
\* prepared list.
C22_OrderedPartition ==
    (worker = "dspy" /\ local.split # "none") =>
        LET n == Len(local.prepared)
        IN  /\ local.split = "supplied" <=> ~NoValidationSet
            /\ local.split = "split" <=> (NoValidationSet /\ C22_Floor80(n) < n)
            /\ local.split = "split" =>
                  /\ local.trainset = SubSeq(local.prepared, 1, C22_Floor80(n))
                  /\ local.valset = SubSeq(local.prepared, C22_Floor80(n) + 1, n)
                  /\ local.trainset \o local.valset = local.prepared
                  /\ local.train + local.val = n
            /\ local.split = "supplied" =>
                  /\ local.trainset = local.prepared
                  /\ local.train = Len(config.train_dataset.items)
                  /\ local.val = Len(config.val_dataset.items)
            /\ local.train = Len(local.trainset)
            /\ local.val = Len(local.valset)

\* a DSPy worker run on two examples and no validation set has ended in
\* success with the first example for training and the second for validation
C22_Witness ==
    /\ worker = "dspy"
    /\ pc = "exited"
    /\ Last(out).type = "success"
    /\ local.split = "split"
    /\ config.train_dataset.items = <<"a", "b">>
    /\ local.trainset = <<DspyExample("a")>>
    /\ local.valset = <<DspyExample("b")>>


\* C23: for every percentage p the DSPy evaluator returns, the validation
\* score evaluate_program returns (and the success message carries) is p/100,
\* here p hundredths.
C23_ScoreIsFraction ==
    (worker = "dspy" /\ local.evaluated # NoScore) =>
        local.score = local.evaluated


-----------------------------------------------------------------------------
(* Properties of the GEPA prediction function, budget, prompt registration, *)
(* extraction and scorers                                                    *)

\* C24: in the backend GEPA worker, for each provider of openai, anthropic,
\* google and ollama, a call of the prediction function main() builds reaches
\* the provider's completion API and returns its text; it does not fail on
\* the shape of what the provider selector returned.
C24_PredictFnReturnsText ==
    (/\ worker = "gepa_backend"
     /\ local.predict # "none"
     /\ config.model_config \in PredictFnProviders) =>
        local.predict = "text"


\* google and gemini name one provider
C25_SameProvider(a, b) == a = b \/ {a, b} = {"google", "gemini"}

\* C25: whenever optimize_with_gepa reaches the optimizer, the provider that
\* answers prediction calls is the provider named in the reflection and scorer
\* model string, for every model_configs list, the empty one included.
C25_OneProvider ==
    (api.called /\ api.setup # NoSetup) =>
        /\ C25_SameProvider(api.setup.predictor, ReflectionProvider(api.config))
        /\ api.setup.scorerModel = api.setup.predictor \o ":/model"
              \/ api.setup.predictor = "google"


\* C26: whenever optimize_with_gepa reaches the optimizer with the
\* configuration the GEPA endpoint builds, the optimizer's max_metric_calls is
\* numGenerations * populationSize of the request's config, with 5 and 10 for
\* an absent knob or an absent config object (50 when both are absent), and
\* the optimizer and the Correctness scorer get the same model string.
C26_BudgetIsProduct ==
    (api.called /\ api.setup # NoSetup) =>
        LET rc == api.config.request_config
            gens == IF rc.present /\ rc.numGenerations # <<>>
                    THEN rc.numGenerations[1] ELSE 5
            pop == IF rc.present /\ rc.populationSize # <<>>
                   THEN rc.populationSize[1] ELSE 10
        IN  /\ api.setup.budget = gens * pop
            /\ ~rc.present => api.setup.budget = 50
            /\ api.setup.optimizerModel = api.setup.scorerModel

\* optimize_with_gepa has reached the optimizer for a request that gives
\* numGenerations = 2 and no populationSize: the budget is 20
C26_Witness ==
    /\ api.called
    /\ api.setup # NoSetup
    /\ api.config.request_config.present
    /\ api.config.request_config.numGenerations = <<2>>
    /\ api.config.request_config.populationSize = <<>>
    /\ api.setup.budget = 20
    /\ "GepaPromptOptimizer" \in api.calls


\* C27: whenever a GEPA job (a worker run or a call of optimize_with_gepa)
\* goes on to optimization, the prompt object it got from prompt registration
\* has the job's initial prompt as its template and a URI that resolves in
\* the registry.
C27_PromptIsRequested ==
    /\ (worker \in GepaWorkers /\ "mlflow.genai.optimize_prompts" \in calls) =>
          /\ local.prompt.template = "requested"
          /\ local.prompt.resolves
    /\ (api.called /\ "mlflow.genai.optimize_prompts" \in api.calls) =>
          /\ api.prompt.template = "requested"
          /\ api.prompt.resolves


\* C28: in every DSPy worker run that ends with a success message, the
\* compiled_program_path it reports names a location at which the compiled
\* program was saved during that run.
C28_ReportedPathWasSaved ==
    (/\ worker = "dspy"
     /\ pc = "exited"
     /\ out # <<>>
     /\ Last(out).type = "success"
     /\ local.path # "none") =>
        local.saved


\* C29: for every result object, extract_optimization_results returns a
\* dictionary with the five keys; the optimized prompt text is the first
\* optimized prompt's template if it has one, else its text, else its string
\* form, and the empty string when there are no optimized prompts; a missing
\* score or iteration attribute yields 0.
C29_FallbackOrder ==
    extraction.called =>
        LET result == extraction.result
            returned == extraction.returned
        IN  /\ DOMAIN returned = {"initial_score", "final_score",
                                  "optimized_prompt_text", "optimizer_name",
                                  "iterations"}
            /\ result.optimized_prompts = "template" =>
                  returned.optimized_prompt_text = "str(template)"
            /\ result.optimized_prompts = "text" =>
                  returned.optimized_prompt_text = "str(text)"
            /\ result.optimized_prompts = "neither" =>
                  returned.optimized_prompt_text = "str(prompt)"
            /\ result.optimized_prompts \in {"missing", "empty"} =>
                  returned.optimized_prompt_text = ""
            /\ result.initial_eval_score = "missing" => returned.initial_score = 0
            /\ result.final_eval_score = "missing" => returned.final_score = 0
            /\ result.iterations = "missing" => returned.iterations = 0


\* C30: in the GEPA workers create_scorers returns at least one scorer for
\* every scorer configuration, so the optimizer is never run with an empty
\* scorer list.
C30_AtLeastOneScorer ==
    (/\ worker \in GepaWorkers
     /\ \/ pc = "optimize"
        \/ "mlflow.genai.optimize_prompts" \in calls) =>
        local.scorers > 0

=============================================================================
